---- MODULE Spec2Model ----
(***************************************************************************)
(* Model of the KCPR -> Spotify playlist reconciliation loop.              *)
(*                                                                         *)
(*   src/kcpr.py       KcprSpotifyService  (the "service" variant)         *)
(*   src/scheduler.py  KcprSpotifyScheduler (the "scheduler" variant)      *)
(*   src/spotify.py    SpotifyAuthManager, Utils                           *)
(*                                                                         *)
(* Text (artist, title, query) is a sequence of characters.  A printable    *)
(* ASCII character is the string of that character, \t \n \r \f are the     *)
(* strings "\t" "\n" "\r" "\f", and every other character is the string     *)
(* "U+" followed by the four hex digits of its code point ("U+00A0").      *)
(* A Spotify URI / track ID is the sequence of its ":"-separated parts, so *)
(* "spotify:track:t1" is <<"spotify","track","t1">>, the ID "t1" is        *)
(* <<"t1">> and the empty string is <<"">>  (Python: "".split(":") = [""]).*)
(* A similarity threshold is given in hundredths (0.30 is 30).             *)
(***************************************************************************)
EXTENDS Integers, Sequences, FiniteSets, TLC

VARIABLES
    variant,                      \* "service" (kcpr.py) or "scheduler" (scheduler.py) or "resolver"
    pc,                           \* position of the loop; "closing": finally, "exiting": end of async with
    browser,                      \* "none" | "open" | "closed"
    prev_data,                    \* self.prev_data
    now_playing,                  \* result of the last get_now_playing
    spotify_playlist_track_uris,  \* self.spotify_playlist_track_uris
    exc,                          \* exception that left the loop, "none" if none
    appendCalls,                  \* per identifier: number of playlist_add_items calls carrying it
    appendFailed,                 \* identifiers carried by a playlist_add_items call that raised
    getTrackCalls,                \* number of get_track calls made by the loop
    track_uri,                    \* value returned by the last get_track of the loop
    startup,                      \* the membership list as enumerated at construction
    polls,                        \* number of fetches made so far
    lastQuery,                    \* normalized query of the previous successful poll
    changes,                      \* number of successful polls whose query differed from lastQuery
    resolved,                     \* per URI: number of cycles in which get_track returned it
    call,                         \* last direct call of a SpotifyAuthManager method: arguments and outcome
    cancelled,                    \* "no", or the suspension point at which CancelledError was delivered
    search_query                  \* text of the last catalog search made by the loop, None before it

vars == <<variant, pc, browser, prev_data, now_playing, spotify_playlist_track_uris,
          exc, appendCalls, appendFailed, getTrackCalls, track_uri, startup, polls,
          lastQuery, changes, resolved, call, cancelled, search_query>>

----------------------------------------------------------------------------
(* Bounds of the model *)

MaxPolls == 3         \* fetches per run
MaxCandidates == 2    \* length of a catalog search result
MaxStartup == 1       \* length of the playlist enumerated at startup
MaxBatch == 200       \* length of a batch handed to add_tracks_to_playlist
MaxPieces == 3        \* pieces a scraped song title is put together from
MaxPages == 3         \* pages of the playlist
MaxPageItems == 2     \* items on one page of the playlist

----------------------------------------------------------------------------
(* Program constants *)

SIMILARITY_THRESHOLD == 30   \* similarity_threshold=0.30 passed by both loops
CHUNK_LIMIT == 99            \* len(tracks) >= 99 splits the batch

None == <<"<None>">>         \* Python's None
EmptyStr == <<"">>           \* Python's '' as an identifier / URI

CleanMarker == <<"(", "C", "l", "e", "a", "n", ")">>
Separator == <<" ", "-", " ">>

----------------------------------------------------------------------------
(* Input domains *)

ArtistNames == { <<"A", "b">>, <<"C", "d">> }

SongTitles == { <<"x", "y">>,
                <<"x", "y", " ", "(", "C", "l", "e", "a", "n", ")">>,
                <<"z", "z">> }

Samples == ArtistNames \X SongTitles

TrackIds == { "t1", "t2" }

Uri(id) == <<"spotify", "track", id>>

TrackUris == { Uri(id) : id \in TrackIds }

Identifiers == TrackUris \cup { <<id>> : id \in TrackIds } \cup { EmptyStr }

\* A search candidate: track["uri"], track["artists"][0]["name"], track["name"]
Candidates ==
    { [uri |-> Uri("t1"), artist |-> <<"A", "b">>, name |-> <<"x", "y">>],
      [uri |-> Uri("t2"), artist |-> <<"A", "b">>, name |-> <<"z", "z">>],
      [uri |-> Uri("t2"), artist |-> <<"C", "d">>, name |-> <<"z", "z">>] }

SeqsUpTo(S, n) == UNION { [1..k -> S] : k \in 0..n }

\* Outcome of spotify.search: it raises, or returns the items (best match first)
SearchOutcomes ==
    { [ok |-> FALSE, items |-> <<>>] } \cup
    { [ok |-> TRUE, items |-> l] : l \in SeqsUpTo(Candidates, MaxCandidates) }

Thresholds == { 0, 30, 95, 100 }

StartupLists == SeqsUpTo({ <<id>> : id \in TrackIds }, MaxStartup)

----------------------------------------------------------------------------
(* Text helpers: str.replace, str.strip, str.split(":")[-1] *)

\* the 29 characters str.strip() removes (those for which str.isspace() holds)
Whitespace ==
    { " ", "\t", "\n", "\r", "\f", "U+000B",
      "U+001C", "U+001D", "U+001E", "U+001F", "U+0085", "U+00A0", "U+1680",
      "U+2000", "U+2001", "U+2002", "U+2003", "U+2004", "U+2005", "U+2006",
      "U+2007", "U+2008", "U+2009", "U+200A",
      "U+2028", "U+2029", "U+202F", "U+205F", "U+3000" }

IsSpace(c) == c \in Whitespace

RECURSIVE Replace(_, _)
\* s.replace(old, ""): leftmost non-overlapping occurrences, one pass
Replace(s, old) ==
    IF Len(s) < Len(old) THEN s
    ELSE IF SubSeq(s, 1, Len(old)) = old
         THEN Replace(SubSeq(s, Len(old) + 1, Len(s)), old)
         ELSE <<Head(s)>> \o Replace(Tail(s), old)

RECURSIVE LStrip(_)
LStrip(s) == IF s # <<>> /\ IsSpace(Head(s)) THEN LStrip(Tail(s)) ELSE s

RECURSIVE RStrip(_)
RStrip(s) == IF s # <<>> /\ IsSpace(s[Len(s)]) THEN RStrip(SubSeq(s, 1, Len(s) - 1)) ELSE s

Strip(s) == RStrip(LStrip(s))

\* f"{artist} - {song}"
FormatQuery(artist, song) == artist \o Separator \o song

\* .replace("(Clean)", "").strip()
Normalize(s) == Strip(Replace(s, CleanMarker))

\* f"{artist} - {song}".replace("(Clean)", "").strip()
NormalizedQuery(artist, song) == Normalize(FormatQuery(artist, song))

\* track_uri.split(":")[-1]
TrackIdOf(uri) == <<uri[Len(uri)]>>

----------------------------------------------------------------------------
(* Utils.str_similarity: difflib.SequenceMatcher(None, a, b).ratio()       *)

\* autojunk: when b has 200 or more elements, those occurring more than
\* len(b) // 100 + 1 times are dropped from b2j and start no match
Popular(b) ==
    IF Len(b) >= 200
    THEN { c \in { b[n] : n \in 1..Len(b) } :
             Cardinality({ n \in 1..Len(b) : b[n] = c }) > (Len(b) \div 100) + 1 }
    ELSE {}

\* length of the common run of a and b starting at a[i], b[j] inside a[..ahi], b[..bhi],
\* the elements of b in skip ending the run
MatchLen(a, b, i, j, ahi, bhi, skip) ==
    LET lim == IF ahi - i < bhi - j THEN ahi - i + 1 ELSE bhi - j + 1
        Same(d) == a[i + d] = b[j + d] /\ ~(b[j + d] \in skip)
    IN  IF lim <= 0 THEN 0
        ELSE IF ~Same(0) THEN 0
        ELSE CHOOSE k \in 1..lim :
                 /\ \A d \in 1..(k - 1) : Same(d)
                 /\ k = lim \/ ~Same(k)

\* the number of equal elements just before a[i], b[j], not below alo, blo
ExtendBack(a, b, i, j, alo, blo) ==
    LET lim == IF i - alo < j - blo THEN i - alo ELSE j - blo
    IN  CHOOSE k \in 0..lim :
            /\ \A d \in 1..k : a[i - d] = b[j - d]
            /\ k = lim \/ a[i - k - 1] # b[j - k - 1]

\* the two loops that extend the block found = <<i, j, k>> by the equal elements
\* before it and after it
ExtendBlock(a, b, found, alo, ahi, blo, bhi) ==
    LET back == ExtendBack(a, b, found[1], found[2], alo, blo)
        forth == MatchLen(a, b, found[1] + found[3], found[2] + found[3], ahi, bhi, {})
    IN  <<found[1] - back, found[2] - back, found[3] + back + forth>>

\* find_longest_match: the longest block of elements kept in b2j, earliest in a, then
\* earliest in b, extended on both ends by the equal elements next to it
FindLongestMatch(a, b, alo, ahi, blo, bhi) ==
    LET popular == Popular(b)
        cells == (alo..ahi) \X (blo..bhi)
        runs == { <<c[1], c[2], MatchLen(a, b, c[1], c[2], ahi, bhi, popular)>> : c \in cells }
        best == IF runs = {} THEN 0
                ELSE CHOOSE k \in { c[3] : c \in runs } : \A c \in runs : c[3] <= k
        found == IF best = 0 THEN <<alo, blo, 0>>
                 ELSE LET hits == { c \in runs : c[3] = best }
                          i == CHOOSE x \in { c[1] : c \in hits } : \A c \in hits : x <= c[1]
                          j == CHOOSE y \in { c[2] : c \in { h \in hits : h[1] = i } } :
                                  \A c \in { h \in hits : h[1] = i } : y <= c[2]
                      IN  <<i, j, best>>
    IN  CHOOSE m \in { ExtendBlock(a, b, f, alo, ahi, blo, bhi) : f \in {found} } : TRUE

RECURSIVE MatchingSize(_, _, _, _, _, _)
\* get_matching_blocks: total size of the blocks found left and right of the longest
MatchingSize(a, b, alo, ahi, blo, bhi) ==
    IF alo > ahi \/ blo > bhi THEN 0
    ELSE LET Blocks(m) ==
                 LET i == m[1]
                     j == m[2]
                     k == m[3]
                 IN  IF k = 0 THEN 0
                     ELSE k + MatchingSize(a, b, alo, i - 1, blo, j - 1)
                            + MatchingSize(a, b, i + k, ahi, j + k, bhi)
         IN  CHOOSE n \in { Blocks(m) : m \in {FindLongestMatch(a, b, alo, ahi, blo, bhi)} } :
                 TRUE

\* ratio() as the fraction <<numerator, denominator>>: 2.0*M/T, 1.0 when T = 0
str_similarity(lhs_title, rhs_title) ==
    LET T == Len(lhs_title) + Len(rhs_title)
    IN  IF T = 0 THEN <<1, 1>>
        ELSE <<2 * MatchingSize(lhs_title, rhs_title, 1, Len(lhs_title), 1, Len(rhs_title)), T>>

\* similarity >= similarity_threshold, the threshold in hundredths
AtLeast(sim, threshold) == sim[1] * 100 >= threshold * sim[2]

----------------------------------------------------------------------------
(* SpotifyAuthManager *)

\* slip: the two similarities are averaged instead of tested independently
get_track_Averaged(artist_name, title, similarity_threshold, search) ==
    IF ~search.ok THEN [exc |-> "SpotifyException", uri |-> EmptyStr]
    ELSE IF search.items = <<>> THEN [exc |-> "IndexError", uri |-> EmptyStr]
    ELSE LET track == search.items[1]
             a == str_similarity(track.artist, artist_name)
             t == str_similarity(track.name, title)
         IN  IF \/ similarity_threshold = 0
                \/ (a[1] * t[2] + t[1] * a[2]) * 100 >= 2 * similarity_threshold * a[2] * t[2]
             THEN [exc |-> "none", uri |-> track.uri]
             ELSE [exc |-> "none", uri |-> EmptyStr]

\* query = f"{artist_name} {title}", the text handed to self.spotify.search
SearchQuery(artist_name, title) == artist_name \o <<" ">> \o title

\* get_track: [exc |-> exception raised or "none", uri |-> value returned]
get_track(artist_name, title, similarity_threshold, search) ==
    IF ~search.ok THEN [exc |-> "SpotifyException", uri |-> EmptyStr]
    ELSE IF search.items = <<>> THEN [exc |-> "IndexError", uri |-> EmptyStr]
    ELSE LET track == search.items[1]
         IN  IF similarity_threshold = 0
             THEN [exc |-> "none", uri |-> track.uri]
             ELSE LET artist_similarity == str_similarity(track.artist, artist_name)
                      title_similarity == str_similarity(track.name, title)
                  IN  IF /\ AtLeast(artist_similarity, similarity_threshold)
                         /\ AtLeast(title_similarity, similarity_threshold)
                      THEN [exc |-> "none", uri |-> track.uri]
                      ELSE [exc |-> "none", uri |-> EmptyStr]

\* add_tracks_to_playlist: the playlist_add_items calls issued, in order, when the
\* failAt-th call raises (0: none raises).  A list of CHUNK_LIMIT or more tracks calls
\* Utils.divide_chunks, which class Utils does not define: the AttributeError is
\* caught by the except clause and no call is issued.
add_tracks_to_playlist(tracks, failAt) ==
    IF Len(tracks) >= CHUNK_LIMIT
    THEN [calls |-> <<>>, raised |-> FALSE]
    ELSE [calls |-> <<tracks>>, raised |-> failAt = 1]

\* add_track_to_playlist(playlist_id, track_id)
add_track_to_playlist(track_id, failAt) == add_tracks_to_playlist(<<track_id>>, failAt)

Items(chunk) == { chunk[n] : n \in 1..Len(chunk) }

\* the remote call counters after the calls of one add_tracks_to_playlist
CountCalls(counts, r) ==
    [u \in DOMAIN counts |->
        counts[u] + Cardinality({ n \in 1..Len(r.calls) : u \in Items(r.calls[n]) })]

\* the identifiers carried by the call that raised
FailedItems(r) == IF r.raised THEN Items(r.calls[Len(r.calls)]) ELSE {}

----------------------------------------------------------------------------
(* SpotifyAuthManager.get_playlist_tracks *)

\* an item of a playlist page: item["track"]["id"], item["track"]["uri"]
PlaylistItem(id) == [track |-> [id |-> <<id>>, uri |-> Uri(id)]]

\* self.spotify.playlist_items(playlist_id, limit=100): the first page and the
\* cursor of the next one (0: no next page)
playlist_items(pages) ==
    [items |-> pages[1], next |-> IF Len(pages) > 1 THEN 2 ELSE 0]

\* self.spotify.next(playlist_query)
spotify_next(pages, playlist_query) ==
    [items |-> pages[playlist_query.next],
     next |-> IF playlist_query.next < Len(pages) THEN playlist_query.next + 1 ELSE 0]

RECURSIVE ExtendTracks(_, _, _)
\* while playlist_query["next"]: playlist_query = next(...); tracks.extend(items)
ExtendTracks(pages, playlist_query, tracks) ==
    IF playlist_query.next # 0
    THEN LET q == spotify_next(pages, playlist_query)
         IN  ExtendTracks(pages, q, tracks \o q.items)
    ELSE tracks

\* slip: the page fetched by the last next() is not added
get_playlist_tracks_DropsLastPage(pages) ==
    LET first == playlist_items(pages)
        tracks == ExtendTracks(pages, first, first.items)
        kept == IF Len(pages) > 1
                THEN SubSeq(tracks, 1, Len(tracks) - Len(pages[Len(pages)]))
                ELSE tracks
    IN  [n \in 1..Len(kept) |-> kept[n].track.id]

get_playlist_tracks(pages) ==
    LET first == playlist_items(pages)
        tracks == ExtendTracks(pages, first, first.items)
    IN  [n \in 1..Len(tracks) |-> tracks[n].track.id]

----------------------------------------------------------------------------
(* KcprSpotifyService.get_now_playing *)

Timeout == <<"<Timeout>">>

\* what the page yields: a selector timeout, or the two inner texts (possibly empty)
PageReads == { Timeout } \cup ((ArtistNames \cup { <<>> }) \X (SongTitles \cup { <<>> }))

\* slip: the assertion on empty texts is missing
get_now_playing_NoAssert(read) == IF read = Timeout THEN None ELSE read

get_now_playing(read) ==
    IF read = Timeout THEN None
    ELSE IF read[1] = <<>> \/ read[2] = <<>> THEN None
    ELSE read

----------------------------------------------------------------------------
(* State *)

NoCall == [kind |-> "none"]

ZeroCounts == [u \in Identifiers |-> 0]

Ghosts0 ==
    /\ exc = "none"
    /\ appendCalls = ZeroCounts
    /\ appendFailed = {}
    /\ getTrackCalls = 0
    /\ track_uri = None
    /\ polls = 0
    /\ lastQuery = None
    /\ changes = 0
    /\ resolved = [u \in TrackUris |-> 0]
    /\ call = NoCall
    /\ cancelled = "no"
    /\ search_query = None

\* KcprSpotifyService.__init__
InitService ==
    /\ variant = "service"
    /\ pc = "start"
    /\ browser = "none"
    /\ prev_data = None
    /\ now_playing = None
    /\ startup \in StartupLists
    /\ spotify_playlist_track_uris = startup
    /\ Ghosts0

\* KcprSpotifyScheduler.__init__
InitScheduler ==
    /\ variant = "scheduler"
    /\ pc = "tick"
    /\ browser = "none"
    /\ \E s \in Samples : prev_data = FormatQuery(s[1], s[2])
    /\ now_playing = None
    /\ startup \in StartupLists
    /\ spotify_playlist_track_uris = startup
    /\ Ghosts0

Init == InitService \/ InitScheduler

----------------------------------------------------------------------------
(* KcprSpotifyService.monitor_now_playing *)

\* where the awaits before the try block can end: entering async_playwright(),
\* launch, new_page or goto raises, or a CancelledError is delivered at one of them
StartOutcomes ==
    { "loaded", "EnterError", "LaunchError", "NewPageError", "GotoError",
      "CancelledAtEnter", "CancelledAtLaunch", "CancelledError" }

\* async with async_playwright(), then launch, new_page and page.goto, all before
\* the try block: an error or a CancelledError there does not reach finally; inside
\* the async with it leaves through the exit of the context manager.  The browser
\* exists only once launch has returned.
Start ==
    /\ variant = "service"
    /\ pc = "start"
    /\ \E outcome \in StartOutcomes :
          /\ browser' = IF outcome \in {"EnterError", "CancelledAtEnter",
                                        "LaunchError", "CancelledAtLaunch"}
                        THEN "none" ELSE "open"
          /\ pc' = CASE outcome = "loaded" -> "fetch"
                     [] outcome \in {"EnterError", "CancelledAtEnter"} -> "done"
                     [] OTHER -> "exiting"
          /\ exc' = CASE outcome = "loaded" -> "none"
                      [] outcome \in {"CancelledAtEnter", "CancelledAtLaunch"} ->
                             "CancelledError"
                      [] OTHER -> outcome
          /\ cancelled' = IF outcome \in {"CancelledAtEnter", "CancelledAtLaunch",
                                          "CancelledError"}
                          THEN "start" ELSE cancelled
    /\ UNCHANGED <<variant, prev_data, now_playing, spotify_playlist_track_uris,
                   appendCalls, appendFailed, getTrackCalls, track_uri, startup, polls,
                   lastQuery, changes, resolved, call, search_query>>

\* now_playing = await self.get_now_playing(page); handle it if there is one
GetNowPlaying ==
    /\ variant = "service"
    /\ pc = "fetch"
    /\ polls < MaxPolls
    /\ \E read \in PageReads :
          /\ now_playing' = get_now_playing(read)
          /\ pc' = IF get_now_playing(read) = None THEN "sleep" ELSE "handle"
    /\ polls' = polls + 1
    /\ UNCHANGED <<variant, browser, prev_data, spotify_playlist_track_uris, exc,
                   appendCalls, appendFailed, getTrackCalls, track_uri, startup,
                   lastQuery, changes, resolved, call, cancelled, search_query>>

\* self.spotify_handler.get_track(artist_name=artist, title=song, similarity_threshold=0.30)
\* for every sample and every outcome of the catalog search: the pairs <<sample, result>>
ResolutionTable ==
    { <<c[1], get_track(c[1][1], c[1][2], SIMILARITY_THRESHOLD, c[2])>> :
        c \in Samples \X SearchOutcomes }

\* the results get_track can return to the loop for the sample <<artist, song>>
Resolutions(artist, song) ==
    { p[2] : p \in { q \in ResolutionTable : q[1] = <<artist, song>> } }

\* slip: the first poll is not used to seed prev_data
SeedPrevData_NoSeed(prev, query) == prev

\* if self.prev_data is None: self.prev_data = query
SeedPrevData(prev, query) == IF prev = None THEN query ELSE prev

\* slip: prev_data is not updated when a new query is accepted
AcceptQuery_Stale(seeded, query) == seeded

\* slip: a sample equal to the previous one clears prev_data
AcceptQuery_ClearsOnRepeat(seeded, query) == IF seeded # query THEN query ELSE None

\* if self.prev_data != query: self.prev_data = query
AcceptQuery(seeded, query) == IF seeded # query THEN query ELSE seeded

\* slip: the membership test is dropped
ShouldAdd_NoMembershipTest(track_id, uri, playlist) == uri # EmptyStr

\* slip: the test for the empty URI is dropped
ShouldAdd_NoEmptyTest(track_id, uri, playlist) == ~(track_id \in Items(playlist))

\* if not track_id in self.spotify_playlist_track_uris: if track_uri == '': ... else: add
ShouldAdd(track_id, uri, playlist) == ~(track_id \in Items(playlist)) /\ uri # EmptyStr

\* the bookkeeping of one successful poll with normalized query q
Observe(q) ==
    /\ lastQuery' = q
    /\ changes' = IF lastQuery # None /\ lastQuery # q THEN changes + 1 ELSE changes

\* slip: the remote append is issued but the track ID is not recorded in the list
ServiceAdd_NoBookkeeping(uri, failAt) ==
    LET track_id == TrackIdOf(uri)
        r == add_track_to_playlist(uri, failAt)
    IN  IF ShouldAdd(track_id, uri, spotify_playlist_track_uris)
        THEN /\ appendCalls' = CountCalls(appendCalls, r)
             /\ appendFailed' = appendFailed \cup FailedItems(r)
             /\ UNCHANGED spotify_playlist_track_uris
        ELSE UNCHANGED <<appendCalls, appendFailed, spotify_playlist_track_uris>>

\* handle_now_playing(artist, song), once get_track has returned uri, when the
\* append raises iff failAt = 1
ServiceAdd(uri, failAt) ==
    LET track_id == TrackIdOf(uri)
        r == add_track_to_playlist(uri, failAt)
    IN  IF ShouldAdd(track_id, uri, spotify_playlist_track_uris)
        THEN /\ appendCalls' = CountCalls(appendCalls, r)
             /\ appendFailed' = appendFailed \cup FailedItems(r)
             /\ spotify_playlist_track_uris' = Append(spotify_playlist_track_uris, track_id)
        ELSE UNCHANGED <<appendCalls, appendFailed, spotify_playlist_track_uris>>

\* await self.handle_now_playing(artist, song): it has no suspension point
HandleNowPlaying ==
    /\ variant = "service"
    /\ pc = "handle"
    /\ LET artist == now_playing[1]
           song == now_playing[2]
           query == NormalizedQuery(artist, song)
           seeded == SeedPrevData(prev_data, query)
       IN  /\ Observe(query)
           /\ prev_data' = AcceptQuery(seeded, query)
           /\ IF seeded # query
              THEN \E r \in Resolutions(artist, song), failAt \in 0..1 :
                         /\ getTrackCalls' = getTrackCalls + 1
                         /\ search_query' = SearchQuery(artist, song)
                         /\ IF r.exc # "none"
                            THEN \* the exception leaves the loop and enters finally
                                 /\ exc' = r.exc
                                 /\ pc' = "closing"
                                 /\ browser' = browser
                                 /\ track_uri' = None
                                 /\ UNCHANGED <<appendCalls, appendFailed, resolved,
                                                spotify_playlist_track_uris>>
                            ELSE /\ track_uri' = r.uri
                                 /\ resolved' = IF r.uri \in TrackUris
                                                THEN [resolved EXCEPT ![r.uri] = @ + 1]
                                                ELSE resolved
                                 /\ ServiceAdd(r.uri, failAt)
                                 /\ pc' = "sleep"
                                 /\ UNCHANGED <<exc, browser>>
              ELSE /\ pc' = "sleep"
                   /\ track_uri' = None
                   /\ UNCHANGED <<exc, browser, appendCalls, appendFailed, getTrackCalls,
                                  resolved, spotify_playlist_track_uris, search_query>>
    /\ UNCHANGED <<variant, now_playing, startup, polls, call, cancelled>>

\* await asyncio.sleep(INTERVAL)
Sleep ==
    /\ variant = "service"
    /\ pc = "sleep"
    /\ pc' = "fetch"
    /\ UNCHANGED <<variant, browser, prev_data, now_playing, spotify_playlist_track_uris,
                   exc, appendCalls, appendFailed, getTrackCalls, track_uri, startup, polls,
                   lastQuery, changes, resolved, call, cancelled, search_query>>

\* slip: CancelledError is swallowed inside the loop, which goes on polling
Cancel_Swallowed ==
    /\ variant = "service"
    /\ pc \in {"fetch", "sleep"}
    /\ pc' = "fetch"
    /\ cancelled' = pc
    /\ UNCHANGED <<variant, browser, prev_data, now_playing, spotify_playlist_track_uris,
                   exc, appendCalls, appendFailed, getTrackCalls, track_uri, startup, polls,
                   lastQuery, changes, resolved, call, search_query>>

\* asyncio.CancelledError delivered at a suspension point inside the try block:
\* the except clause swallows it and control enters finally
Cancel ==
    /\ variant = "service"
    /\ pc \in {"fetch", "sleep"}
    /\ pc' = "closing"
    /\ cancelled' = pc
    /\ UNCHANGED <<variant, browser, prev_data, now_playing, spotify_playlist_track_uris,
                   exc, appendCalls, appendFailed, getTrackCalls, track_uri, startup, polls,
                   lastQuery, changes, resolved, call, search_query>>

\* finally: await browser.close().  It completes and the browser is closed; or it
\* raises; or a CancelledError is delivered at this await before close() has
\* completed.  An exception of this clause replaces the one that left the loop.
Close ==
    /\ variant = "service"
    /\ pc = "closing"
    /\ pc' = "exiting"
    /\ \E outcome \in {"closed", "CloseError", "CancelledError"} :
          /\ browser' = IF outcome = "closed" THEN "closed" ELSE browser
          /\ exc' = IF outcome = "closed" THEN exc ELSE outcome
          /\ cancelled' = IF outcome = "CancelledError" /\ cancelled = "no"
                          THEN "close" ELSE cancelled
    /\ UNCHANGED <<variant, prev_data, now_playing, spotify_playlist_track_uris,
                   appendCalls, appendFailed, getTrackCalls, track_uri, startup, polls,
                   lastQuery, changes, resolved, call, search_query>>

\* leaving async with async_playwright(): the exit of the context manager is
\* awaited.  It completes and the pending exception, if any, propagates; or it
\* raises; or a CancelledError is delivered at this await.
Exit ==
    /\ variant = "service"
    /\ pc = "exiting"
    /\ pc' = "done"
    /\ \E outcome \in {"exited", "ExitError", "CancelledError"} :
          /\ exc' = IF outcome = "exited" THEN exc ELSE outcome
          /\ cancelled' = IF outcome = "CancelledError" /\ cancelled = "no"
                          THEN "exit" ELSE cancelled
    /\ UNCHANGED <<variant, browser, prev_data, now_playing, spotify_playlist_track_uris,
                   appendCalls, appendFailed, getTrackCalls, track_uri, startup, polls,
                   lastQuery, changes, resolved, call, search_query>>

----------------------------------------------------------------------------
(* KcprSpotifyScheduler.__spotify_kcpr_event *)

SchedulerAdd(uri, failAt) ==
    LET r == add_track_to_playlist(uri, failAt)
    IN  /\ appendCalls' = CountCalls(appendCalls, r)
        /\ appendFailed' = appendFailed \cup FailedItems(r)
        /\ spotify_playlist_track_uris' =
               Append(Append(spotify_playlist_track_uris, uri), uri)

SpotifyKcprEvent ==
    /\ variant = "scheduler"
    /\ pc = "tick"
    /\ polls < MaxPolls
    /\ polls' = polls + 1
    /\ \E sample \in Samples :
         LET artist == sample[1]
             song == sample[2]
             query == FormatQuery(artist, song)
             seeded == SeedPrevData(prev_data, query)
         IN  /\ now_playing' = sample
             /\ Observe(query)
             /\ IF seeded # query
                THEN \E r \in Resolutions(artist, song), failAt \in 0..1 :
                           /\ getTrackCalls' = getTrackCalls + 1
                           /\ search_query' = SearchQuery(artist, song)
                           /\ IF r.exc # "none"
                              THEN \* the exception leaves schedule.run_pending
                                   /\ exc' = r.exc
                                   /\ pc' = "done"
                                   /\ track_uri' = None
                                   /\ prev_data' = seeded
                                   /\ UNCHANGED <<appendCalls, appendFailed, resolved,
                                                  spotify_playlist_track_uris>>
                              ELSE /\ track_uri' = r.uri
                                   /\ resolved' = IF r.uri \in TrackUris
                                                  THEN [resolved EXCEPT ![r.uri] = @ + 1]
                                                  ELSE resolved
                                   /\ IF ~(r.uri \in Items(spotify_playlist_track_uris))
                                      THEN /\ SchedulerAdd(r.uri, failAt)
                                           /\ prev_data' = query
                                      ELSE /\ prev_data' = seeded
                                           /\ UNCHANGED <<appendCalls, appendFailed,
                                                          spotify_playlist_track_uris>>
                                   /\ UNCHANGED <<exc, pc>>
                ELSE /\ prev_data' = seeded
                     /\ track_uri' = None
                     /\ UNCHANGED <<exc, pc, appendCalls, appendFailed, getTrackCalls,
                                    resolved, spotify_playlist_track_uris, search_query>>
    /\ UNCHANGED <<variant, browser, startup, call, cancelled>>

Next ==
    Start \/ GetNowPlaying \/ HandleNowPlaying \/ Sleep \/ Cancel \/ Close \/ Exit
        \/ SpotifyKcprEvent

Spec == Init /\ [][Next]_vars

----------------------------------------------------------------------------
(* Direct calls of SpotifyAuthManager.get_track, for every threshold *)

InitResolver ==
    /\ variant = "resolver"
    /\ pc = "api"
    /\ browser = "none"
    /\ prev_data = None
    /\ now_playing = None
    /\ startup = <<>>
    /\ spotify_playlist_track_uris = <<>>
    /\ Ghosts0

GetTrackCall ==
    /\ variant = "resolver"
    /\ \E sample \in Samples, threshold \in Thresholds, search \in SearchOutcomes :
          call' = [kind |-> "get_track", artist_name |-> sample[1], title |-> sample[2],
                   similarity_threshold |-> threshold, search |-> search,
                   result |-> get_track(sample[1], sample[2], threshold, search)]
    /\ UNCHANGED <<variant, pc, browser, prev_data, now_playing,
                   spotify_playlist_track_uris, exc, appendCalls, appendFailed,
                   getTrackCalls, track_uri, startup, polls, lastQuery, changes, resolved,
                   cancelled, search_query>>

NextResolver == GetTrackCall

SpecResolver == InitResolver /\ [][NextResolver]_vars

----------------------------------------------------------------------------
(* Direct calls of SpotifyAuthManager.add_tracks_to_playlist with a batch *)

BatchTrack(n) == <<"spotify", "track", ToString(n)>>

BatchOf(n) == [i \in 1..n |-> BatchTrack(i)]

\* which playlist_add_items call raises (0: none)
FailPoints == 0..((MaxBatch \div CHUNK_LIMIT) + 1)

AddTracksCall ==
    /\ variant = "resolver"
    /\ call = NoCall
    /\ \E n \in 0..MaxBatch, failAt \in FailPoints :
          call' = [kind |-> "add_tracks_to_playlist", tracks |-> BatchOf(n),
                   failAt |-> failAt,
                   result |-> add_tracks_to_playlist(BatchOf(n), failAt)]
    /\ UNCHANGED <<variant, pc, browser, prev_data, now_playing,
                   spotify_playlist_track_uris, exc, appendCalls, appendFailed,
                   getTrackCalls, track_uri, startup, polls, lastQuery, changes, resolved,
                   cancelled, search_query>>

NextBatch == AddTracksCall

SpecBatch == InitResolver /\ [][NextBatch]_vars

----------------------------------------------------------------------------
(* The query normalization of handle_now_playing on scraped texts *)

Pieces ==
    { <<"(", "C", "l">>, CleanMarker, <<"e", "a", "n", ")">>, <<" ">>, <<"\r">>, <<"U+3000">>,
      <<"x">> }

RECURSIVE Concat(_)
Concat(ss) == IF ss = <<>> THEN <<>> ELSE Head(ss) \o Concat(Tail(ss))

ScrapedTitles == { Concat(ps) : ps \in SeqsUpTo(Pieces, MaxPieces) } \ { <<>> }

NormalizeCall ==
    /\ variant = "resolver"
    /\ call = NoCall
    /\ \E artist \in ArtistNames, song \in ScrapedTitles :
          call' = [kind |-> "normalize", artist |-> artist, song |-> song,
                   query |-> NormalizedQuery(artist, song)]
    /\ UNCHANGED <<variant, pc, browser, prev_data, now_playing,
                   spotify_playlist_track_uris, exc, appendCalls, appendFailed,
                   getTrackCalls, track_uri, startup, polls, lastQuery, changes, resolved,
                   cancelled, search_query>>

NextNormalize == NormalizeCall

SpecNormalize == InitResolver /\ [][NextNormalize]_vars

----------------------------------------------------------------------------
(* Direct calls of SpotifyAuthManager.get_playlist_tracks *)

Pages == SeqsUpTo({ PlaylistItem(id) : id \in TrackIds }, MaxPageItems)

\* the playlist as the remote API pages it: at least one page
Pagings == SeqsUpTo(Pages, MaxPages) \ { <<>> }

GetPlaylistTracksCall ==
    /\ variant = "resolver"
    /\ call = NoCall
    /\ \E pages \in Pagings :
          call' = [kind |-> "get_playlist_tracks", pages |-> pages,
                   result |-> get_playlist_tracks(pages)]
    /\ UNCHANGED <<variant, pc, browser, prev_data, now_playing,
                   spotify_playlist_track_uris, exc, appendCalls, appendFailed,
                   getTrackCalls, track_uri, startup, polls, lastQuery, changes, resolved,
                   cancelled, search_query>>

NextPlaylist == GetPlaylistTracksCall

SpecPlaylist == InitResolver /\ [][NextPlaylist]_vars

----------------------------------------------------------------------------
(* Properties *)

Playlist == spotify_playlist_track_uris

Count(list, x) == Cardinality({ n \in 1..Len(list) : list[n] = x })

IsPrefix(s, t) == Len(s) <= Len(t) /\ SubSeq(t, 1, Len(s)) = s

CycleErrors == { "SpotifyException", "IndexError" }

\* C1: in the service variant get_track is called in a poll exactly when the
\* normalized query of that poll differs from the normalized query of the
\* previous successful poll, and never on a repeat or on the first poll.
C1_FiresExactlyOnChange ==
    [][ (variant = "service" /\ pc = "handle") =>
          ( (getTrackCalls' = getTrackCalls + 1)
              <=> (lastQuery # None
                   /\ NormalizedQuery(now_playing[1], now_playing[2]) # lastQuery) )
          /\ getTrackCalls' \in { getTrackCalls, getTrackCalls + 1 } ]_vars

\* three successful polls A, B, A: the procedure fired on both transitions
C1_Witness ==
    /\ variant = "service"
    /\ pc = "sleep"
    /\ polls = 3
    /\ changes = 2
    /\ getTrackCalls = 2

\* C2: the first successful poll (prev_data is None) only seeds prev_data: no
\* get_track call, no remote append, membership list unchanged.
C2_FirstPollOnlySeeds ==
    [][ (variant = "service" /\ pc = "handle" /\ prev_data = None) =>
          /\ prev_data' = NormalizedQuery(now_playing[1], now_playing[2])
          /\ getTrackCalls' = getTrackCalls
          /\ appendCalls' = appendCalls
          /\ Playlist' = Playlist ]_vars

\* the first successful poll has been handled
C2_Witness ==
    /\ variant = "service"
    /\ pc = "sleep"
    /\ polls = 1
    /\ prev_data # None
    /\ getTrackCalls = 0
    /\ appendCalls = ZeroCounts

\* C3 (as claimed): the monitoring loop of the service is never left with an
\* error raised by a collaborator during a polling cycle.
C3_CycleErrorNeverTerminates ==
    variant = "service" => ~(pc = "done" /\ exc \in CycleErrors)

\* C4 (as claimed): on an empty candidate list get_track returns '' without
\* raising, for every threshold.
C4_EmptySearchIsNotFound ==
    (call.kind = "get_track" /\ call.search.ok /\ call.search.items = <<>>)
        => call.result = [exc |-> "none", uri |-> EmptyStr]

\* C5: on a non-empty candidate list get_track returns the first candidate's URI
\* if the threshold is 0.0 or both similarities of the first candidate reach the
\* threshold independently, and '' otherwise.
C5_FirstCandidateDecides ==
    (call.kind = "get_track" /\ call.search.ok /\ call.search.items # <<>>) =>
        LET first == call.search.items[1]
            thr == call.similarity_threshold
            sa == str_similarity(first.artist, call.artist_name)
            st == str_similarity(first.name, call.title)
            found == \/ thr = 0
                     \/ (sa[1] * 100 >= thr * sa[2] /\ st[1] * 100 >= thr * st[2])
        IN  call.result = [exc |-> "none", uri |-> IF found THEN first.uri ELSE EmptyStr]

\* the first candidate has the right artist and the wrong title, the second
\* candidate is an exact match: NotFound
C5_Witness ==
    /\ call.kind = "get_track"
    /\ call.search.ok
    /\ Len(call.search.items) = 2
    /\ call.similarity_threshold = 30
    /\ call.search.items[1].artist = call.artist_name
    /\ call.search.items[1].name # call.title
    /\ call.search.items[2].artist = call.artist_name
    /\ call.search.items[2].name = call.title
    /\ call.result.uri = EmptyStr

\* C6 (as claimed): the ID of a track whose remote append raised is not in the
\* membership list of the service.
C6_FailedAppendNotInserted ==
    variant = "service" => \A u \in appendFailed : ~(TrackIdOf(u) \in Items(Playlist))

\* C7: in the service variant a track ID resolved in any number of cycles gets
\* exactly one remote append if it was not in the list at startup and none if it
\* was, and the list gains at most one entry for it.
C7_AdditionIdempotent ==
    variant = "service" =>
        \A id \in TrackIds :
            /\ appendCalls[Uri(id)] <= 1
            /\ (<<id>> \in Items(startup)) => appendCalls[Uri(id)] = 0
            /\ (resolved[Uri(id)] >= 1 /\ ~(<<id>> \in Items(startup)))
                    => appendCalls[Uri(id)] = 1
            /\ Count(Playlist, <<id>>) <= Count(startup, <<id>>) + 1

\* the same track was resolved in two change-handling cycles and appended once
C7_Witness ==
    /\ variant = "service"
    /\ \E id \in TrackIds :
          /\ resolved[Uri(id)] = 2
          /\ appendCalls[Uri(id)] = 1
          /\ Count(Playlist, <<id>>) = 1

\* C8 (as claimed): in both variants a cycle whose get_track returned '' issues
\* no remote append and leaves the membership list unchanged.
C8_NotFoundNoMutation ==
    [][ (getTrackCalls' = getTrackCalls + 1 /\ track_uri' = EmptyStr) =>
          (appendCalls' = appendCalls /\ Playlist' = Playlist) ]_vars

\* C9 (as claimed): no playlist_add_items call ever carries the empty track ID.
C9_EmptyIdNoRemoteCall == appendCalls[EmptyStr] = 0

\* C10: in the service variant, a membership list without an empty ID at
\* startup never contains an empty ID, and no entry is ever removed from it.
C10_MembershipInvariant ==
    /\ [](variant = "service" /\ ~(EmptyStr \in Items(startup))
            => ~(EmptyStr \in Items(Playlist)))
    /\ [][variant = "service" => IsPrefix(Playlist, Playlist')]_vars

\* after a failed append and a NotFound cycle the list has grown
C10_Witness ==
    /\ variant = "service"
    /\ track_uri = EmptyStr
    /\ appendFailed # {}
    /\ Len(Playlist) > Len(startup)

\* C11: a failed fetch (timeout, exception, empty artist or title) skips the
\* cycle: what get_now_playing hands on never has an empty field, and on None
\* the loop goes to its sleep with prev_data, the membership list and the
\* resolver and append counters unchanged.
C11_FailedFetchSkipsCycle ==
    [][ (variant = "service" /\ pc = "fetch" /\ polls' = polls + 1) =>
          /\ now_playing' # None => (now_playing'[1] # <<>> /\ now_playing'[2] # <<>>)
          /\ (now_playing' = None) <=> (pc' = "sleep")
          /\ now_playing' = None =>
                /\ prev_data' = prev_data
                /\ Playlist' = Playlist
                /\ getTrackCalls' = getTrackCalls
                /\ appendCalls' = appendCalls ]_vars

\* a fetch failed after prev_data was seeded and the loop is in its sleep
C11_Witness ==
    /\ variant = "service"
    /\ pc = "sleep"
    /\ now_playing = None
    /\ polls >= 2
    /\ prev_data # None

\* C12 (as claimed): for a batch long enough to be chunked, when the remote
\* append of one chunk is made to raise, the appends of the other chunks are
\* still issued, so every track of the batch is carried by some
\* playlist_add_items call.
C12_FailedChunkDoesNotBlock ==
    (/\ call.kind = "add_tracks_to_playlist"
     /\ Len(call.tracks) >= CHUNK_LIMIT
     /\ call.failAt >= 1) =>
        \A i \in 1..Len(call.tracks) :
            \E c \in 1..Len(call.result.calls) : call.tracks[i] \in Items(call.result.calls[c])

\* C13 (as claimed): every playlist_add_items call of a batch carries at most 99
\* IDs and the chunks, concatenated in call order, are the input sequence.
C13_ChunksPartitionInput ==
    call.kind = "add_tracks_to_playlist" =>
        /\ \A c \in 1..Len(call.result.calls) : Len(call.result.calls[c]) <= 99
        /\ Concat(call.result.calls) = call.tracks

\* C14 (as claimed): in both variants a completed cycle that found a query
\* different from prev_data (and so called get_track) ends with prev_data equal
\* to that query, whatever resolution and addition gave.
C14_ChangeUpdatesPrevData ==
    [][ (getTrackCalls' = getTrackCalls + 1 /\ exc' = "none") =>
          prev_data' = lastQuery' ]_vars

\* C15 (as claimed): normalizing a normalized query changes nothing.
C15_NormalizeIdempotent ==
    call.kind = "normalize" => Normalize(call.query) = call.query

\* C16 (as claimed): in both variants no identifier occurs in the membership
\* list more often than it was enumerated at startup plus once.
C16_InsertedOnce ==
    \A u \in Identifiers : Count(Playlist, u) <= Count(startup, u) + 1

\* C17 (as claimed): whenever monitor_now_playing has ended after launching the
\* browser, browser.close() has been executed.
C17_BrowserClosedOnExit ==
    (variant = "service" /\ pc = "done" /\ browser # "none") => browser = "closed"

\* C18: a cancellation delivered in the inter-cycle sleep takes the loop to its
\* finally clause, from which monitor_now_playing can only leave the async with
\* block and end, and from then on there is no further fetch, resolution or
\* remote append.
C18_CancelStopsLoop ==
    /\ [][ (variant = "service" /\ cancelled = "no" /\ cancelled' = "sleep") =>
             (pc = "sleep" /\ pc' = "closing") ]_vars
    /\ [][ (/\ variant = "service"
            /\ pc \in {"closing", "exiting", "done"} \/ cancelled # "no") =>
             /\ pc' \in {"exiting", "done"}
             /\ polls' = polls
             /\ getTrackCalls' = getTrackCalls
             /\ appendCalls' = appendCalls ]_vars

\* the loop was cancelled in its sleep with polls still to come
C18_Witness ==
    /\ variant = "service"
    /\ cancelled = "sleep"
    /\ pc = "done"
    /\ polls >= 1
    /\ polls < MaxPolls

RECURSIVE PageIds(_)
\* the track IDs of the items of all pages, in page order
PageIds(pages) ==
    IF pages = <<>> THEN <<>>
    ELSE [n \in 1..Len(Head(pages)) |-> Head(pages)[n].track.id] \o PageIds(Tail(pages))

\* C19: get_playlist_tracks returns the track ID of every item of every page, in
\* page order, none skipped or duplicated, for any number of pages.
C19_AllPagesEnumerated ==
    call.kind = "get_playlist_tracks" => call.result = PageIds(call.pages)

\* three non-empty pages were enumerated
C19_Witness ==
    /\ call.kind = "get_playlist_tracks"
    /\ Len(call.pages) = 3
    /\ \A p \in 1..3 : call.pages[p] # <<>>
    /\ Len(call.result) >= 3

\* C20 (as claimed): in the scheduler variant no remote append is issued for a
\* track whose ID was enumerated into the membership list at startup.
C20_StartupTrackNotAppended ==
    variant = "scheduler" =>
        \A id \in TrackIds : (<<id>> \in Items(startup)) => appendCalls[Uri(id)] = 0

\* sub in s, for two texts
Contains(s, sub) ==
    \E i \in 1..(Len(s) - Len(sub) + 1) : SubSeq(s, i, i + Len(sub) - 1) = sub

\* C21 (as claimed): in the service variant the text that handle_now_playing
\* sends to the catalog through get_track never contains the "(Clean)" marker.
C21_SearchTextHasNoMarker ==
    (variant = "service" /\ search_query # None) => ~Contains(search_query, CleanMarker)

\* C22: in the service variant, whenever monitor_now_playing has ended, by a
\* cancellation at any suspension point or otherwise, every track for which the
\* loop issued a remote append has its ID in the membership list.
C22_AppendNeverSeparated ==
    (variant = "service" /\ pc = "done") =>
        \A u \in Identifiers :
            appendCalls[u] > 0 => TrackIdOf(u) \in Items(Playlist)

\* the loop was cancelled after it had issued a remote append for a new track
C22_Witness ==
    /\ variant = "service"
    /\ pc = "done"
    /\ cancelled \in {"fetch", "sleep"}
    /\ \E u \in TrackUris :
          /\ appendCalls[u] > 0
          /\ ~(TrackIdOf(u) \in Items(startup))
          /\ TrackIdOf(u) \in Items(Playlist)

\* C23: in the service variant prev_data, once seeded, never returns to None;
\* every handle_now_playing leaves prev_data equal to the normalized query of
\* the sample it was given, so prev_data is always the normalized query of the
\* most recent successfully fetched sample.
C23_PrevDataTracksLastSample ==
    /\ [][ (variant = "service" /\ prev_data # None) => prev_data' # None ]_vars
    /\ [][ (variant = "service" /\ pc = "handle") =>
             prev_data' = NormalizedQuery(now_playing[1], now_playing[2]) ]_vars
    /\ [](variant = "service" => prev_data = lastQuery)

\* after a change of sample, prev_data is the normalized query of a sample
\* that carries the "(Clean)" marker
C23_Witness ==
    /\ variant = "service"
    /\ pc = "sleep"
    /\ changes >= 1
    /\ now_playing # None
    /\ Contains(now_playing[2], CleanMarker)
    /\ prev_data = NormalizedQuery(now_playing[1], now_playing[2])
    /\ prev_data # FormatQuery(now_playing[1], now_playing[2])

====
